---- MODULE Spec2Model ----
(***************************************************************************)
(* Model of forget's HTTP routes (src/routes.py): the enable/disable state *)
(* machine, the settings whitelist, session login/logout with the          *)
(* after-request touch, and the tweet-archive upload that dispatches one   *)
(* import job per chunk.                                                   *)
(*                                                                         *)
(* One action is one HTTP request: before_request (load_viewer), the view  *)
(* function, and after_request (touch_viewer, which commits the ORM        *)
(* session).  Time is counted in days.                                     *)
(***************************************************************************)
EXTENDS Integers, Sequences, FiniteSets, TLC

VARIABLES accounts, sessions, next_sid, archives, queue, now, ticks, ack, last

vars == <<accounts, sessions, next_sid, archives, queue, now, ticks, ack, last>>

---------------------------------------------------------------------------
(* Bounds of the model *)

MaxSessions == 2
MaxTicks == 1
MaxArchives == 2
MaxChunks == 2

(* Program constants *)

Days365 == 365
NoSession == 0

Accounts == {"a1", "a2"}

(* Number of stored posts of each account (the Post Store is not written by *)
(* any route of src/routes.py).                                             *)
PostCount(a) == IF a = "a1" THEN 1 ELSE 0

(* Clock steps: exactly 365 days, or one day more. *)
Steps == {Days365, Days365 + 1}

---------------------------------------------------------------------------
(* Request inputs *)

FormValues == {"0", "1", "bad"}
FormKeys == {"policy_keep_latest", "policy_delete_every", "dormant"}
WhitelistKeys == {"policy_keep_latest", "policy_delete_every"}
(* POST /settings forms: one whitelisted key with any value; both         *)
(* whitelisted keys with one value that is no number; and forms with the   *)
(* key "dormant", which is not whitelisted.                                *)
Forms ==
  UNION {[K -> FormValues] :
           K \in {{"policy_keep_latest"}, {"policy_delete_every"}}}
  \cup {[k \in WhitelistKeys |->
           IF k = "policy_keep_latest" THEN "0" ELSE "bad"],
        [k \in WhitelistKeys |->
           IF k = "policy_keep_latest" THEN "bad" ELSE "0"]}
  \cup {[k \in K |-> "1"] : K \in {{"dormant"}, FormKeys}}
(* PUT /api/settings bodies *)
ApiData ==
  [{"policy_delete_every"} -> FormValues]
  \cup {[k \in WhitelistKeys |->
           IF k = "policy_keep_latest" THEN "0" ELSE "bad"]}

Files(n) == [i \in 1..n |-> i]
Bodies == {[corrupt |-> TRUE, files |-> <<>>]}
          \cup {[corrupt |-> FALSE, files |-> Files(n)] : n \in 0..MaxChunks}

---------------------------------------------------------------------------
(* model.Account, lib.settings, lib.auth, lib.twitter: the collaborators   *)
(* of the routes.                                                          *)

NewAccount ==
  [policy_enabled |-> FALSE, policy_delete_every |-> 1,
   policy_keep_latest |-> 1, last_delete |-> {}, dormant |-> FALSE]

(* lib.settings.attrs: the whitelist of policy fields, in assignment order *)
attrs == <<"policy_keep_latest", "policy_delete_every">>

(* int(value): raises ValueError on a string that is no number *)
IsNumber(v) == v \in {"0", "1"}
ParseInt(v) == IF v = "0" THEN 0 ELSE 1

(* setattr(account, 'policy_enabled', enable): on the transition to        *)
(* enabled, last_delete is set to the current time if it was unset.        *)
set_policy_enabled(acc, enable, t) ==
  IF ~acc.policy_enabled /\ enable /\ acc.last_delete = {}
    THEN [acc EXCEPT !.policy_enabled = enable, !.last_delete = {t}]
    ELSE [acc EXCEPT !.policy_enabled = enable]

(* Account.estimate_eligible_for_delete: posts beyond the latest           *)
(* policy_keep_latest ones.                                                *)
estimate_eligible_for_delete(a, acc) ==
  IF PostCount(a) > acc.policy_keep_latest
    THEN PostCount(a) - acc.policy_keep_latest
    ELSE 0

(* lib.twitter.chunk_twitter_archive: the month files of the container,    *)
(* or BadZipFile for a malformed one.                                      *)
chunk_twitter_archive(body) ==
  IF body.corrupt
    THEN [raised |-> "BadZipFile", files |-> <<>>]
    ELSE [raised |-> "none", files |-> body.files]

(* lib.auth.get_viewer_session: the session the request's cookie names *)
get_viewer_session(sess, cookie) ==
  IF cookie \in DOMAIN sess THEN cookie ELSE NoSession

---------------------------------------------------------------------------
(* src/routes.py *)

load_viewer(sess, cookie) == get_viewer_session(sess, cookie)

(* Session.touch() for g.viewer in the after_request hook *)
touch_viewer(sess, viewer, t) ==
  IF viewer # NoSession /\ viewer \in DOMAIN sess
    THEN [sess EXCEPT ![viewer].updated_at = t]
    ELSE sess

(* db.session.commit() of the after_request hook: the pending (in-memory)  *)
(* row is written when there is a viewer, otherwise the stored row stays.  *)
touch_viewer_commit(viewer, pending, stored) ==
  IF viewer # NoSession THEN pending ELSE stored

(* Variant: only the age of last_delete is tested *)
Stale_only_age(acc, t) ==
  \E ld \in acc.last_delete : ld < t - Days365

Stale(acc, t) ==
  \/ acc.last_delete = {}
  \/ \E ld \in acc.last_delete : ld < t - Days365

(* Variant: the zero-delay branch is missing *)
enable_no_zero_check(a, acc, confirm, t) ==
  IF ~confirm /\ ~acc.policy_enabled /\ Stale(acc, t)
    THEN [account |-> acc, kind |-> "warn_permanent", approx |-> 0]
    ELSE [account |-> set_policy_enabled(acc, TRUE, t),
          kind |-> "redirect_index", approx |-> 0]

(* Variant: the column is written by a bulk UPDATE, past the attribute     *)
(* setter of the account                                                   *)
enable_bulk_update(a, acc, confirm, t) ==
  IF ~confirm /\ ~acc.policy_enabled /\ acc.policy_delete_every = 0
    THEN [account |-> acc, kind |-> "warn_zero_delay",
          approx |-> estimate_eligible_for_delete(a, acc)]
  ELSE IF ~confirm /\ ~acc.policy_enabled /\ Stale(acc, t)
    THEN [account |-> acc, kind |-> "warn_permanent", approx |-> 0]
  ELSE [account |-> [acc EXCEPT !.policy_enabled = TRUE],
        kind |-> "redirect_index", approx |-> 0]

(* Variant: an earlier acknowledgment of the account counts as confirm *)
enable_remembers_ack(a, acc, confirm, t) ==
  LET confirmed == confirm \/ ack[a] # "never"
  IN  IF ~confirmed /\ ~acc.policy_enabled /\ acc.policy_delete_every = 0
        THEN [account |-> acc, kind |-> "warn_zero_delay",
              approx |-> estimate_eligible_for_delete(a, acc)]
      ELSE IF ~confirmed /\ ~acc.policy_enabled /\ Stale(acc, t)
        THEN [account |-> acc, kind |-> "warn_permanent", approx |-> 0]
      ELSE [account |-> set_policy_enabled(acc, TRUE, t),
            kind |-> "redirect_index", approx |-> 0]

enable(a, acc, confirm, t) ==
  IF ~confirm /\ ~acc.policy_enabled /\ acc.policy_delete_every = 0
    THEN [account |-> acc, kind |-> "warn_zero_delay",
          approx |-> estimate_eligible_for_delete(a, acc)]
  ELSE IF ~confirm /\ ~acc.policy_enabled /\ Stale(acc, t)
    THEN [account |-> acc, kind |-> "warn_permanent", approx |-> 0]
  ELSE [account |-> set_policy_enabled(acc, TRUE, t),
        kind |-> "redirect_index", approx |-> 0]

(* Variant: the flag is written as in enable *)
disable_sets_true(acc, t) ==
  [account |-> set_policy_enabled(acc, TRUE, t),
   kind |-> "redirect_index", approx |-> 0]

disable(acc, t) ==
  [account |-> set_policy_enabled(acc, FALSE, t),
   kind |-> "redirect_index", approx |-> 0]

(* setattr(viewer, attr, value) *)
set_attr(acc, attr, value) ==
  IF attr = "policy_keep_latest"
    THEN [acc EXCEPT !.policy_keep_latest = ParseInt(value)]
    ELSE [acc EXCEPT !.policy_delete_every = ParseInt(value)]

(* for attr in lib.settings.attrs: if attr in form: setattr(...)           *)
(* from position i on; stops at the first ValueError.                      *)
RECURSIVE set_attrs(_, _, _)
set_attrs(acc, form, i) ==
  IF i > Len(attrs) THEN [account |-> acc, error |-> FALSE]
  ELSE IF attrs[i] \notin DOMAIN form THEN set_attrs(acc, form, i + 1)
  ELSE IF ~IsNumber(form[attrs[i]]) THEN [account |-> acc, error |-> TRUE]
  ELSE set_attrs(set_attr(acc, attrs[i], form[attrs[i]]), form, i + 1)

(* POST /settings: pending is the in-memory row, stored the committed one *)
settings(acc, form) ==
  LET r == set_attrs(acc, form, 1)
  IN  IF r.error
        THEN [pending |-> r.account, stored |-> acc, kind |-> "error_400"]
        ELSE [pending |-> r.account, stored |-> r.account,
              kind |-> "redirect_settings_saved"]

(* PUT /api/settings: no handler for ValueError *)
api_settings_put(acc, form) ==
  LET r == set_attrs(acc, form, 1)
  IN  IF r.error
        THEN [pending |-> r.account, stored |-> acc, kind |-> "error_500"]
        ELSE [pending |-> r.account, stored |-> r.account,
              kind |-> "json_success"]

ImportJob(ta, filename) ==
  [task |-> "import_twitter_archive_month", archive |-> ta,
   filename |-> filename]

FetchJob(a) == [task |-> "fetch_acc", account_id |-> a]

(* Variant: the dispatch sits after the loop and runs once, for the last   *)
(* file                                                                    *)
dispatch_imports_last_only(q, ta, files) ==
  Append(q, ImportJob(ta, files[Len(files)]))

(* the loop "for filename in files: ... apply_async()" *)
dispatch_imports(q, ta, files) ==
  q \o [i \in 1..Len(files) |-> ImportJob(ta, files[i])]

(* Variant: the except clause names BadZipFile alone *)
upload_tweet_archive_empty_uncaught(q, ta, body) ==
  LET c == chunk_twitter_archive(body)
  IN  IF c.raised = "BadZipFile"
        THEN [chunks |-> {}, queue |-> q, exc |-> "BadZipFile",
              kind |-> "redirect_tweet_archive_failed"]
      ELSE IF ~(Len(c.files) > 0)
        THEN [chunks |-> {Len(c.files)}, queue |-> q,
              exc |-> "TweetArchiveEmptyException", kind |-> "error_500"]
      ELSE [chunks |-> {Len(c.files)},
            queue |-> dispatch_imports(q, ta, c.files),
            exc |-> "none", kind |-> "redirect_recent_archives"]

(* POST /upload_tweet_archive, after the archive row ta was committed *)
upload_tweet_archive(q, ta, body) ==
  LET c == chunk_twitter_archive(body)
  IN  IF c.raised = "BadZipFile"
        THEN [chunks |-> {}, queue |-> q, exc |-> "BadZipFile",
              kind |-> "redirect_tweet_archive_failed"]
      ELSE IF ~(Len(c.files) > 0)
        THEN [chunks |-> {Len(c.files)}, queue |-> q,
              exc |-> "TweetArchiveEmptyException",
              kind |-> "redirect_tweet_archive_failed"]
      ELSE [chunks |-> {Len(c.files)},
            queue |-> dispatch_imports(q, ta, c.files),
            exc |-> "none", kind |-> "redirect_recent_archives"]

(* Variant: every session of the viewer's account is deleted *)
logout_all_sessions(sess, viewer) ==
  [sessions |-> [s \in {x \in DOMAIN sess :
                          sess[x].account_id # sess[viewer].account_id}
                   |-> sess[s]],
   viewer |-> NoSession]

(* logout: db.session.delete(g.viewer); g.viewer = None *)
logout(sess, viewer) ==
  [sessions |-> [s \in DOMAIN sess \ {viewer} |-> sess[s]],
   viewer |-> NoSession]

---------------------------------------------------------------------------
(* Observation of the last request *)

NoLast ==
  [op |-> "none", sid |-> NoSession, acct |-> "none", confirm |-> FALSE,
   pre |-> NewAccount, kind |-> "none", approx |-> 0, exc |-> "none",
   ta |-> 0]

Observe(op, sid, a, confirm, kind, approx) ==
  [NoLast EXCEPT !.op = op, !.sid = sid, !.acct = a, !.confirm = confirm,
                 !.pre = accounts[a], !.kind = kind, !.approx = approx]

---------------------------------------------------------------------------
Init ==
  /\ accounts = [a \in Accounts |-> NewAccount]
  /\ sessions = <<>>
  /\ next_sid = 1
  /\ archives = <<>>
  /\ queue = <<>>
  /\ now = 0
  /\ ticks = 0
  /\ ack = [a \in Accounts |-> "never"]
  /\ last = NoLast

(* datetime.now() advances *)
Tick(d) ==
  /\ ticks < MaxTicks
  /\ now' = now + d
  /\ ticks' = ticks + 1
  /\ last' = NoLast
  /\ UNCHANGED <<accounts, sessions, next_sid, archives, queue, ack>>

(* The scheduler flags an inactive account dormant *)
MarkDormant(a) ==
  /\ ~accounts[a].dormant
  /\ accounts' = [accounts EXCEPT ![a].dormant = TRUE]
  /\ last' = NoLast
  /\ UNCHANGED <<sessions, next_sid, archives, queue, now, ticks, ack>>

(* /login/twitter/callback, /login/mastodon/callback: login(account_id) *)
Login(a) ==
  /\ next_sid <= MaxSessions
  /\ LET created == [s \in DOMAIN sessions \cup {next_sid} |->
                       IF s = next_sid
                         THEN [account_id |-> a, updated_at |-> now]
                         ELSE sessions[s]]
     IN  /\ sessions' = touch_viewer(created, next_sid, now)
         /\ last' = Observe("login", next_sid, a, FALSE, "redirect_index",
                            0)
  /\ next_sid' = next_sid + 1
  /\ accounts' = [accounts EXCEPT ![a].dormant = FALSE]
  /\ queue' = Append(queue, FetchJob(a))
  /\ UNCHANGED <<archives, now, ticks, ack>>

(* /login/twitter/callback when the provider fails (TwitterError,          *)
(* URLError): no session is created; a viewer the cookie names is touched  *)
LoginError(cookie) ==
  /\ LET viewer == load_viewer(sessions, cookie)
     IN  /\ sessions' = touch_viewer(sessions, viewer, now)
         /\ last' = [NoLast EXCEPT !.op = "login", !.sid = viewer,
                                   !.kind = "redirect_login_error"]
  /\ UNCHANGED <<accounts, next_sid, archives, queue, now, ticks, ack>>

(* A request of a route behind require_auth with no valid session *)
Unauthorized(op, cookie) ==
  /\ load_viewer(sessions, cookie) = NoSession
  /\ last' = [NoLast EXCEPT !.op = op, !.kind = "unauthorized"]
  /\ UNCHANGED <<accounts, sessions, next_sid, archives, queue, now, ticks,
                 ack>>

Enable(cookie, confirm) ==
  /\ load_viewer(sessions, cookie) # NoSession
  /\ LET viewer == load_viewer(sessions, cookie)
         a == sessions[viewer].account_id
         r == enable(a, accounts[a], confirm, now)
     IN  /\ accounts' = [accounts EXCEPT ![a] =
                           touch_viewer_commit(viewer, r.account, r.account)]
         /\ sessions' = touch_viewer(sessions, viewer, now)
         /\ ack' = [ack EXCEPT ![a] =
                      IF confirm /\ r.kind = "redirect_index"
                        THEN IF accounts[a].policy_delete_every = 0
                               THEN "zero_delay"
                             ELSE IF @ = "never" THEN "confirmed" ELSE @
                        ELSE @]
         /\ last' = Observe("enable", viewer, a, confirm, r.kind, r.approx)
  /\ UNCHANGED <<next_sid, archives, queue, now, ticks>>

Disable(cookie) ==
  /\ load_viewer(sessions, cookie) # NoSession
  /\ LET viewer == load_viewer(sessions, cookie)
         a == sessions[viewer].account_id
         r == disable(accounts[a], now)
     IN  /\ accounts' = [accounts EXCEPT ![a] =
                           touch_viewer_commit(viewer, r.account, r.account)]
         /\ sessions' = touch_viewer(sessions, viewer, now)
         /\ last' = Observe("disable", viewer, a, FALSE, r.kind, r.approx)
  /\ UNCHANGED <<next_sid, archives, queue, now, ticks, ack>>

Settings(cookie, form) ==
  /\ load_viewer(sessions, cookie) # NoSession
  /\ LET viewer == load_viewer(sessions, cookie)
         a == sessions[viewer].account_id
         r == settings(accounts[a], form)
     IN  /\ accounts' = [accounts EXCEPT ![a] =
                           touch_viewer_commit(viewer, r.pending, r.stored)]
         /\ sessions' = touch_viewer(sessions, viewer, now)
         /\ last' = Observe("settings", viewer, a, FALSE, r.kind, 0)
  /\ UNCHANGED <<next_sid, archives, queue, now, ticks, ack>>

ApiSettingsPut(cookie, form) ==
  /\ load_viewer(sessions, cookie) # NoSession
  /\ LET viewer == load_viewer(sessions, cookie)
         a == sessions[viewer].account_id
         r == api_settings_put(accounts[a], form)
     IN  /\ accounts' = [accounts EXCEPT ![a] =
                           touch_viewer_commit(viewer, r.pending, r.stored)]
         /\ sessions' = touch_viewer(sessions, viewer, now)
         /\ last' = Observe("api_settings_put", viewer, a, FALSE, r.kind, 0)
  /\ UNCHANGED <<next_sid, archives, queue, now, ticks, ack>>

Logout(cookie) ==
  /\ load_viewer(sessions, cookie) # NoSession
  /\ LET viewer == load_viewer(sessions, cookie)
         a == sessions[viewer].account_id
         r == logout(sessions, viewer)
     IN  /\ sessions' = touch_viewer(r.sessions, r.viewer, now)
         /\ accounts' = [accounts EXCEPT ![a] =
                           touch_viewer_commit(r.viewer, accounts[a],
                                               accounts[a])]
         /\ last' = Observe("logout", viewer, a, FALSE, "redirect_index", 0)
  /\ UNCHANGED <<next_sid, archives, queue, now, ticks, ack>>

UploadTweetArchive(cookie, body) ==
  /\ load_viewer(sessions, cookie) # NoSession
  /\ Len(archives) < MaxArchives
  /\ LET viewer == load_viewer(sessions, cookie)
         a == sessions[viewer].account_id
         ta == Len(archives) + 1
         r == upload_tweet_archive(queue, ta, body)
     IN  /\ archives' = Append(archives,
                               [account_id |-> a, body |-> body,
                                chunks |-> r.chunks])
         /\ queue' = r.queue
         /\ sessions' = touch_viewer(sessions, viewer, now)
         /\ last' = [Observe("upload_tweet_archive", viewer, a, FALSE,
                             r.kind, 0)
                       EXCEPT !.exc = r.exc, !.ta = ta]
  /\ UNCHANGED <<accounts, next_sid, now, ticks, ack>>

Cookies == 1..MaxSessions

(* The policy state machine of one user, with every route that reads or    *)
(* writes the account's policy.                                            *)
PolicyUser == "a1"

Next ==
  \/ \E d \in Steps : Tick(d)
  \/ Login(PolicyUser)
  \/ \E c \in Cookies : Unauthorized("enable", c)
  \/ \E c \in Cookies, confirm \in BOOLEAN : Enable(c, confirm)
  \/ \E c \in Cookies : Disable(c)
  \/ \E c \in Cookies, form \in Forms : Settings(c, form)
  \/ \E c \in Cookies, data \in ApiData : ApiSettingsPut(c, data)
  \/ \E c \in Cookies : Logout(c)

Spec == Init /\ [][Next]_vars

(* One user's enable and disable requests, on an account that the         *)
(* scheduler may flag dormant.                                             *)
NextDisable ==
  \/ \E d \in Steps : Tick(d)
  \/ MarkDormant(PolicyUser)
  \/ Login(PolicyUser)
  \/ \E c \in Cookies : Unauthorized("disable", c)
  \/ \E c \in Cookies, confirm \in BOOLEAN : Enable(c, confirm)
  \/ \E c \in Cookies : Disable(c)
  \/ \E c \in Cookies, data \in ApiData : ApiSettingsPut(c, data)

SpecDisable == Init /\ [][NextDisable]_vars

(* The sessions of two users: login, logout, and requests in between. *)
NextSession ==
  \/ \E d \in Steps : Tick(d)
  \/ \E a \in Accounts : MarkDormant(a)
  \/ \E a \in Accounts : Login(a)
  \/ \E c \in Cookies : LoginError(c)
  \/ \E c \in Cookies : Unauthorized("logout", c)
  \/ \E c \in Cookies : Enable(c, TRUE)
  \/ \E c \in Cookies : Logout(c)

SpecSession == Init /\ [][NextSession]_vars

(* The archive upload of two users. *)
NextArchive ==
  \/ \E a \in Accounts : Login(a)
  \/ \E c \in Cookies : Unauthorized("upload_tweet_archive", c)
  \/ \E c \in Cookies, body \in Bodies : UploadTweetArchive(c, body)
  \/ \E c \in Cookies : Logout(c)

SpecArchive == Init /\ [][NextArchive]_vars

---------------------------------------------------------------------------
(* Properties *)

IsWarning(kind) == kind \in {"warn_zero_delay", "warn_permanent"}

Viewed == accounts[last.acct]

(* The last request was op, from an authenticated viewer *)
Handled(op) == last.op = op /\ last.sid # NoSession

EnableRefusable ==
  Handled("enable") /\ ~last.confirm /\ ~last.pre.policy_enabled

(* C1: an enable request without confirmation on a disabled account with   *)
(* policy_delete_every = 0 returns the zero-delay warning with an          *)
(* estimate >= 0 and leaves the account disabled, whatever last_delete is. *)
C1_ZeroDelayEnableWarns ==
  (EnableRefusable /\ last.pre.policy_delete_every = 0)
    => /\ last.kind = "warn_zero_delay"
       /\ last.approx >= 0
       /\ ~Viewed.policy_enabled

(* C1 witness: the warning, with a positive estimate, on an account whose  *)
(* last_delete is set and recent                                           *)
C1_Witness ==
  /\ EnableRefusable
  /\ last.pre.policy_delete_every = 0
  /\ last.pre.last_delete # {}
  /\ ~Stale(last.pre, now)
  /\ last.kind = "warn_zero_delay"
  /\ last.approx > 0

(* C2: an enable request without confirmation on a disabled account whose  *)
(* last_delete is unset or older than 365 days returns a warning and       *)
(* leaves the account disabled, for every policy_delete_every.             *)
C2_StaleEnableWarns ==
  (EnableRefusable
     /\ (\/ last.pre.last_delete = {}
         \/ \E ld \in last.pre.last_delete : ld < now - Days365))
    => IsWarning(last.kind) /\ ~Viewed.policy_enabled

(* C2 witness: refused with a nonzero delay because last_delete is set and *)
(* 366 days old                                                            *)
C2_Witness ==
  /\ EnableRefusable
  /\ last.pre.policy_delete_every # 0
  /\ last.pre.last_delete = {now - Days365 - 1}
  /\ last.kind = "warn_permanent"
  /\ ~Viewed.policy_enabled

C4_ZeroDelayEnabledOnlyAcknowledged ==
  \A a \in Accounts :
    (accounts[a].policy_enabled /\ accounts[a].policy_delete_every = 0)
      => ack[a] = "zero_delay"

(* C5: a disable request of an authenticated viewer ends with              *)
(* policy_enabled = FALSE and a redirect, never a warning, from every      *)
(* account state.                                                          *)
C5_DisableAlwaysPermitted ==
  Handled("disable")
    => /\ ~Viewed.policy_enabled
       /\ ~IsWarning(last.kind)
       /\ last.kind = "redirect_index"
       /\ Viewed = [last.pre EXCEPT !.policy_enabled = FALSE]

(* C5 witness: disable of an enabled, dormant account with a zero delay *)
C5_Witness ==
  /\ Handled("disable")
  /\ last.pre.policy_enabled
  /\ last.pre.dormant
  /\ last.pre.policy_delete_every = 0
  /\ ~Viewed.policy_enabled

(* C6: an enable request carrying confirmation always ends enabled; and an *)
(* account that was enabled with confirmation before is refused again,     *)
(* with a warning, when it asks without confirmation while disabled and    *)
(* policy_delete_every = 0 or last_delete is unset or older than 365 days. *)
C6_ConfirmationIsOneShot ==
  /\ (Handled("enable") /\ last.confirm)
       => Viewed.policy_enabled /\ last.kind = "redirect_index"
  /\ (EnableRefusable /\ ack[last.acct] # "never"
        /\ (last.pre.policy_delete_every = 0 \/ Stale(last.pre, now)))
       => IsWarning(last.kind) /\ ~Viewed.policy_enabled

(* C6 witness: refused without confirmation after an earlier accepted      *)
(* confirmation with a zero delay                                          *)
C6_Witness ==
  /\ EnableRefusable
  /\ ack[last.acct] = "zero_delay"
  /\ IsWarning(last.kind)
  /\ ~Viewed.policy_enabled

(* C7: an archive without chunks is rejected with                          *)
(* TweetArchiveEmptyException, a malformed one with BadZipFile; the two    *)
(* differ, and both uploads end in the archive-failed redirect, not in an  *)
(* unhandled error.                                                        *)
C7_ArchiveFailuresAreDistinctAndHandled ==
  Handled("upload_tweet_archive") =>
    LET body == archives[last.ta].body
    IN  /\ (~body.corrupt /\ Len(body.files) = 0)
             => /\ last.exc = "TweetArchiveEmptyException"
                /\ last.kind = "redirect_tweet_archive_failed"
        /\ body.corrupt
             => /\ last.exc = "BadZipFile"
                /\ last.kind = "redirect_tweet_archive_failed"
        /\ last.kind # "error_500"
        /\ (last.exc = "none") = (~body.corrupt /\ Len(body.files) > 0)

(* C7 witness: an empty archive was uploaded after a corrupt one *)
C7_Witness ==
  /\ Handled("upload_tweet_archive")
  /\ last.exc = "TweetArchiveEmptyException"
  /\ last.kind = "redirect_tweet_archive_failed"
  /\ \E ta \in 1..Len(archives) : archives[ta].body.corrupt

ImportJobsOf(ta) ==
  SelectSeq(queue, LAMBDA j : j.task = "import_twitter_archive_month"
                              /\ j.archive = ta)

(* C8: for an archive of n > 0 chunks the queue holds exactly one import   *)
(* job per chunk, each with the archive id and that chunk, and chunks = n  *)
(* is recorded; for a corrupt or empty archive no import job is queued.    *)
C8_OneImportJobPerChunk ==
  \A ta \in 1..Len(archives) :
    LET body == archives[ta].body
        jobs == ImportJobsOf(ta)
    IN  IF body.corrupt \/ Len(body.files) = 0
          THEN jobs = <<>>
          ELSE /\ Len(jobs) = Len(body.files)
               /\ \A i \in 1..Len(jobs) :
                    jobs[i] = ImportJob(ta, body.files[i])
               /\ archives[ta].chunks = {Len(body.files)}

(* C8 witness: an archive of two chunks and its two jobs, and a rejected   *)
(* archive                                                                 *)
C8_Witness ==
  /\ \E ta \in 1..Len(archives) :
       /\ Len(archives[ta].body.files) = 2
       /\ Len(ImportJobsOf(ta)) = 2
       /\ archives[ta].chunks = {2}
  /\ \E ta \in 1..Len(archives) :
       /\ archives[ta].body.corrupt
       /\ archives[ta].chunks = {}

(* C9: a logout request deletes the viewer's session and nothing else: the *)
(* other sessions, every account, the archives and the queue are as        *)
(* before, and the deleted session is absent after the request.            *)
C9_LogoutDeletesOnlyTheSession ==
  [][\A c \in Cookies :
       Logout(c) =>
         /\ c \in DOMAIN sessions
         /\ DOMAIN sessions' = DOMAIN sessions \ {c}
         /\ \A s \in DOMAIN sessions' : sessions'[s] = sessions[s]
         /\ accounts' = accounts
         /\ archives' = archives
         /\ queue' = queue]_vars

(* C9 witness: after a logout, another session of the same account is      *)
(* still there, untouched since an earlier time, and the account is still  *)
(* enabled and dormant as before                                           *)
C9_Witness ==
  /\ Handled("logout")
  /\ last.sid \notin DOMAIN sessions
  /\ \E s \in DOMAIN sessions :
       /\ sessions[s].account_id = last.acct
       /\ sessions[s].updated_at < now
  /\ last.pre.policy_enabled
  /\ last.pre.dormant
  /\ Viewed = last.pre

(* C10: a /settings request in which an assignment raises a value error    *)
(* leaves the stored account as it was, and a form without whitelisted     *)
(* keys never changes the account.                                         *)
C10_SettingsAllOrNothing ==
  [][\A c \in Cookies, form \in Forms :
       Settings(c, form) =>
         /\ last'.kind = "error_400" => accounts' = accounts
         /\ DOMAIN form \cap WhitelistKeys = {} => accounts' = accounts]_vars

====
